---- MODULE Spec2Model ----
(***************************************************************************)
(* A model of zod-resolve: flatten(schema) builds a record mapping path    *)
(* strings to sub-schemas, resolve(schema, key) looks one path up.         *)
(*                                                                         *)
(* Strings are sequences of one-character strings, so that concatenation,  *)
(* the "." separator, the "[]" and "[N]" suffixes and JavaScript's notion  *)
(* of an integer-like property name are computed, not assumed.             *)
(*                                                                         *)
(* The heap holds every schema object: heap[i] is the object with identity *)
(* i.  A value is a reference [id, opts]: id > 0 is the heap object id,    *)
(* id = 0 with opts # <<>> is a union object that z.union() creates during *)
(* the running call (its options are opts), id = 0 with opts = <<>> is     *)
(* JavaScript's undefined.                                                 *)
(***************************************************************************)
EXTENDS Integers, Sequences, FiniteSets, TLC

VARIABLES heap, flat, res

vars == <<heap, flat, res>>

(***************************************************************************)
(* Bounds of the model.                                                    *)
(***************************************************************************)
\* deepest nesting of flattenSchema calls before the engine's stack overflows
MaxStack == 6
\* calls are made while the heap holds at most MaxSynth unions of earlier calls
MaxSynth == 2
\* arrays and wrappers nested around a leaf
MaxChain == 4
\* fields of an object, items of a tuple, options of a union
MaxWidth == 2

(***************************************************************************)
(* Strings.                                                                *)
(***************************************************************************)
Digit == <<"0", "1", "2", "3", "4", "5", "6", "7", "8", "9">>

DigitChars == {Digit[i] : i \in 1..Len(Digit)}

\* `${index}` for a non-negative integer: its decimal digits
RECURSIVE ToDigits(_)
ToDigits(n) ==
  IF n < Len(Digit) THEN <<Digit[n + 1]>>
  ELSE ToDigits(n \div Len(Digit)) \o <<Digit[(n % Len(Digit)) + 1]>>

DigitValue(c) == (CHOOSE i \in 1..Len(Digit) : Digit[i] = c) - 1

RECURSIVE ToNumber(_)
ToNumber(s) ==
  IF s = <<>> THEN 0
  ELSE ToNumber(SubSeq(s, 1, Len(s) - 1)) * Len(Digit) + DigitValue(s[Len(s)])

\* An integer-like property name (an "array index" of ECMAScript's
\* OrdinaryOwnPropertyKeys): the canonical decimal form of an integer below
\* 2^32 - 1.  Names of up to 9 digits are all below that limit; longer
\* names do not occur in the model.
IsArrayIndex(key) ==
  /\ Len(key) >= 1
  /\ Len(key) <= 9
  /\ \A i \in 1..Len(key) : key[i] \in DigitChars
  /\ (Len(key) > 1 => key[1] # "0")

(***************************************************************************)
(* Values and records (plain JavaScript objects used as ordered maps).     *)
(***************************************************************************)
Undefined == [id |-> 0, opts |-> <<>>]

Ref(i) == [id |-> i, opts |-> <<>>]

\* heap[ObjectCtor] is the global function Object, which every plain object
\* inherits as its "constructor" property
ObjectCtor == 1

\* the property names a plain object inherits from Object.prototype that
\* occur as field names in the model
ProtoKeys == {<<"c", "o", "n", "s", "t", "r", "u", "c", "t", "o", "r">>}

ProtoValue(key) == Ref(ObjectCtor)

Keys(m) == [i \in 1..Len(m) |-> m[i].k]

KeySet(m) == {m[i].k : i \in 1..Len(m)}

HasOwn(m, key) == \E i \in 1..Len(m) : m[i].k = key

\* m[key] for an own property
Own(m, key) == m[CHOOSE i \in 1..Len(m) : m[i].k = key].v

\* key in m
In(m, key) == HasOwn(m, key) \/ key \in ProtoKeys

\* m[key]: own, inherited, or undefined
Get(m, key) ==
  IF HasOwn(m, key) THEN Own(m, key)
  ELSE IF key \in ProtoKeys THEN ProtoValue(key)
  ELSE Undefined

\* where a new own property is enumerated: integer-like names first, in
\* ascending numeric order, then the other names in insertion order
InsertAt(m, key) ==
  IF IsArrayIndex(key)
  THEN 1 + Cardinality({i \in 1..Len(m) :
                          IsArrayIndex(m[i].k) /\ ToNumber(m[i].k) < ToNumber(key)})
  ELSE Len(m) + 1

\* m[key] = value
Put(m, key, value) ==
  IF HasOwn(m, key)
  THEN [i \in 1..Len(m) |-> IF m[i].k = key THEN [k |-> key, v |-> value] ELSE m[i]]
  ELSE LET p == InsertAt(m, key)
       IN  SubSeq(m, 1, p - 1) \o <<[k |-> key, v |-> value]>> \o SubSeq(m, p, Len(m))

(***************************************************************************)
(* Schema objects.                                                         *)
(***************************************************************************)
WrapperKinds == {"optional", "nullable", "default"}

\* kinds of zod schemas that the flattener has no instanceof test for: a
\* ZodReadonly and a ZodLazy hold one inner schema, a ZodIntersection two
ForeignKinds == {"readonly", "lazy", "intersection"}

IsUnion(h, v) == IF v.id = 0 THEN v.opts # <<>> ELSE h[v.id].kind = "union"

\* current.options
Options(h, v) ==
  IF v.id = 0 THEN v.opts ELSE [i \in 1..Len(h[v.id].kids) |-> Ref(h[v.id].kids[i])]

\* z.union(options)
ZUnion(options) == [id |-> 0, opts |-> options]

(***************************************************************************)
(* mergeSchemas                                                            *)
(***************************************************************************)
\* the inner reducer: one entry of one record folded into the accumulator
MergeEntry(h, acc, key, value) ==
  LET current == IF In(acc, key) THEN Get(acc, key) ELSE Undefined
  IN  Put(acc, key,
          IF current # Undefined
          THEN IF IsUnion(h, current)
               THEN ZUnion(Options(h, current) \o <<value>>)
               ELSE ZUnion(<<current, value>>)
          ELSE value)

RECURSIVE MergeEntries(_, _, _, _)
MergeEntries(h, acc, schema, i) ==
  IF i > Len(schema) THEN acc
  ELSE MergeEntries(h, MergeEntry(h, acc, schema[i].k, schema[i].v), schema, i + 1)

RECURSIVE MergeFrom(_, _, _, _)
MergeFrom(h, acc, schemas, i) ==
  IF i > Len(schemas) THEN acc
  ELSE MergeFrom(h, MergeEntries(h, acc, schemas[i], 1), schemas, i + 1)

mergeSchemas(h, schemas) == MergeFrom(h, <<>>, schemas, 1)

(***************************************************************************)
(* The flattener.  A call returns [err, m, deep]: err is TRUE when the     *)
(* recursion exhausted the stack (a RangeError propagates to the caller of *)
(* flatten), m is the record built otherwise, and deep is the deepest      *)
(* nesting of flattenSchema calls that the call reached.                   *)
(***************************************************************************)
Ok(m) == [err |-> FALSE, m |-> m, deep |-> 0]

Thrown == [err |-> TRUE, m |-> <<>>, deep |-> MaxStack + 1]

\* the deepest nesting reached by the calls that returned rs
Deepest(rs) ==
  IF rs = <<>> THEN 0
  ELSE CHOOSE x \in {rs[i].deep : i \in 1..Len(rs)} :
         \A i \in 1..Len(rs) : x >= rs[i].deep

AnyThrown(rs) == \E i \in 1..Len(rs) : rs[i].err

Records(rs) == [i \in 1..Len(rs) |-> rs[i].m]

\* mergeSchemas over the records a map() callback returned, unless one threw
MergeResults(h, rs) ==
  IF AnyThrown(rs) THEN Thrown
  ELSE [Ok(mergeSchemas(h, Records(rs))) EXCEPT !.deep = Deepest(rs)]

\* unwrapSchema without the ZodDefault test
RECURSIVE unwrapSchemaNoDefault(_, _)
unwrapSchemaNoDefault(h, schema) ==
  IF h[schema].kind \in {"optional", "nullable"}
  THEN unwrapSchemaNoDefault(h, h[schema].kids[1])
  ELSE schema

\* unwrapSchema that also unwraps a readonly() decorator
RECURSIVE unwrapSchemaReadonly(_, _)
unwrapSchemaReadonly(h, schema) ==
  IF h[schema].kind \in WrapperKinds \cup {"readonly"}
  THEN unwrapSchemaReadonly(h, h[schema].kids[1])
  ELSE schema

RECURSIVE unwrapSchema(_, _)
unwrapSchema(h, schema) ==
  IF h[schema].kind \in WrapperKinds
  THEN unwrapSchema(h, h[schema].kids[1])
  ELSE schema

RECURSIVE flattenSchema(_, _, _, _)

\* the child's own entry left out when the child has no entries below it
ChildEntryUnlessEmpty(h, newKey, value, d) ==
  LET sub == flattenSchema(h, value, newKey, d + 1)
  IN  IF sub.m = <<>> THEN sub
      ELSE MergeResults(h, <<Ok(<<[k |-> newKey, v |-> Ref(value)]>>), sub>>)

\* [{ [newKey]: value }, flattenSchema(value, newKey)] merged
ChildEntry(h, newKey, value, d) ==
  LET sub == flattenSchema(h, value, newKey, d + 1)
  IN  MergeResults(h, <<Ok(<<[k |-> newKey, v |-> Ref(value)]>>), sub>>)

\* flattenUnionSchema that gives the union an entry of its own
flattenUnionSchemaOwnEntry(h, schema, prefix, d) ==
  IF h[schema].kind # "union" THEN Ok(<<>>)
  ELSE MergeResults(h, <<Ok(<<[k |-> prefix, v |-> Ref(schema)]>>)>>
                          \o [i \in 1..Len(h[schema].kids) |->
                                flattenSchema(h, h[schema].kids[i], prefix, d + 1)])

flattenUnionSchema(h, schema, prefix, d) ==
  IF h[schema].kind # "union" THEN Ok(<<>>)
  ELSE MergeResults(h, [i \in 1..Len(h[schema].kids) |->
                          flattenSchema(h, h[schema].kids[i], prefix, d + 1)])

ObjectKey(prefix, key) == IF prefix # <<>> THEN prefix \o <<".">> \o key ELSE key

\* flattenObjectSchema with a guard against visiting a schema twice: a field
\* whose schema an earlier field already holds gets its own entry only
flattenObjectSchemaOnce(h, schema, prefix, d) ==
  IF h[schema].kind # "object" THEN Ok(<<>>)
  ELSE MergeResults(h, [i \in 1..Len(h[schema].kids) |->
                          IF \E j \in 1..(i - 1) : h[schema].kids[j] = h[schema].kids[i]
                          THEN Ok(<<[k |-> ObjectKey(prefix, h[schema].names[i]),
                                     v |-> Ref(h[schema].kids[i])]>>)
                          ELSE ChildEntry(h, ObjectKey(prefix, h[schema].names[i]),
                                          h[schema].kids[i], d)])

flattenObjectSchema(h, schema, prefix, d) ==
  IF h[schema].kind # "object" THEN Ok(<<>>)
  ELSE MergeResults(h, [i \in 1..Len(h[schema].kids) |->
                          ChildEntry(h, ObjectKey(prefix, h[schema].names[i]),
                                     h[schema].kids[i], d)])

\* the array suffix joined like a field name
ArrayKeyDotted(prefix) ==
  IF prefix # <<>> THEN prefix \o <<".", "[", "]">> ELSE <<"[", "]">>

ArrayKey(prefix) == prefix \o <<"[", "]">>

flattenArraySchema(h, schema, prefix, d) ==
  IF h[schema].kind # "array" THEN Ok(<<>>)
  ELSE ChildEntry(h, ArrayKey(prefix), h[schema].kids[1], d)

\* the tuple suffix counted from one
TupleKeyOneBased(prefix, index) ==
  prefix \o <<"[">> \o ToDigits(index + 1) \o <<"]">>

TupleKey(prefix, index) == prefix \o <<"[">> \o ToDigits(index) \o <<"]">>

flattenTupleSchema(h, schema, prefix, d) ==
  IF h[schema].kind # "tuple" THEN Ok(<<>>)
  ELSE MergeResults(h, [i \in 1..Len(h[schema].kids) |->
                          ChildEntry(h, TupleKey(prefix, i - 1), h[schema].kids[i], d)])

flattenSchema(h, schema, prefix, d) ==
  IF d > MaxStack THEN Thrown
  ELSE LET unwraped == unwrapSchema(h, schema)
           r == MergeResults(h, <<flattenArraySchema(h, unwraped, prefix, d),
                                  flattenTupleSchema(h, unwraped, prefix, d),
                                  flattenObjectSchema(h, unwraped, prefix, d),
                                  flattenUnionSchema(h, unwraped, prefix, d)>>)
       IN  [r EXCEPT !.deep = IF r.deep > d THEN r.deep ELSE d]

\* flatten with a cache: the record an earlier call returned for the schema
\* is returned again, as the caller left it
flattenCached(h, schema) ==
  IF flat.called /\ ~flat.err /\ flat.root = schema
  THEN Ok(flat.held)
  ELSE flattenSchema(h, schema, <<>>, 1)

flatten(h, schema) == flattenSchema(h, schema, <<>>, 1)

(***************************************************************************)
(* The type FlattenSchema<T, Prefix>, which gives flatten its return type. *)
(* Each operator gives the keys of the record types that the type of the   *)
(* same name computes: a list of records is a sequence of key sets, and a  *)
(* record is its key set (the property types are not modelled).            *)
(***************************************************************************)
\* MergeUnion<U>: every key of every record of the list
MergeUnion(U) == UNION {U[i] : i \in 1..Len(U)}

RECURSIVE UnwrapSchema(_, _)
UnwrapSchema(h, T) ==
  IF h[T].kind \in {"optional", "nullable", "default"}
  THEN UnwrapSchema(h, h[T].kids[1])
  ELSE T

RECURSIVE RemoveTrailingDot(_)
RemoveTrailingDot(Content) ==
  IF Content # <<>> /\ Content[Len(Content)] = "."
  THEN RemoveTrailingDot(SubSeq(Content, 1, Len(Content) - 1))
  ELSE Content

ToPrefix(T, Prefix) ==
  IF Prefix = <<>> THEN T
  ELSE IF Prefix[Len(Prefix)] = "." THEN Prefix \o T
  ELSE Prefix \o <<".">> \o T

RECURSIVE FlattenSchema(_, _, _)

FlattenArraySchema(h, T, Prefix) ==
  IF h[T].kind = "array"
  THEN <<{RemoveTrailingDot(Prefix) \o <<"[", "]">>},
         FlattenSchema(h, h[T].kids[1], RemoveTrailingDot(Prefix) \o <<"[", "]", ".">>)>>
  ELSE <<>>

\* FlattenUnionSchema over the options [First, ...Rest] of a union
RECURSIVE FlattenUnionOptions(_, _, _)
FlattenUnionOptions(h, options, Prefix) ==
  IF options = <<>> THEN <<>>
  ELSE IF Tail(options) # <<>>
  THEN FlattenUnionOptions(h, Tail(options), Prefix)
         \o <<FlattenSchema(h, Head(options), Prefix)>>
  ELSE <<FlattenSchema(h, Head(options), Prefix)>>

FlattenUnionSchema(h, T, Prefix) ==
  IF h[T].kind = "union" THEN FlattenUnionOptions(h, h[T].kids, Prefix) ELSE <<>>

\* FlattenTupleSchema over the items [...Rest, Last] of a tuple
RECURSIVE FlattenTupleItems(_, _, _)
FlattenTupleItems(h, items, Prefix) ==
  IF items = <<>> THEN <<>>
  ELSE LET Rest == SubSeq(items, 1, Len(items) - 1)
           Last == items[Len(items)]
           index == <<"[">> \o ToDigits(Len(Rest)) \o <<"]">>
       IN  IF Rest # <<>>
           THEN <<FlattenSchema(h, Last, Prefix \o index)>>
                  \o FlattenTupleItems(h, Rest, Prefix)
                  \o <<{RemoveTrailingDot(Prefix) \o index}>>
           ELSE <<FlattenSchema(h, Last, Prefix \o index),
                  {RemoveTrailingDot(Prefix) \o index}>>

FlattenTupleSchema(h, T, Prefix) ==
  IF h[T].kind = "tuple" THEN FlattenTupleItems(h, h[T].kids, Prefix) ELSE <<>>

FlattenObjectSchema(h, T, Prefix) ==
  IF h[T].kind = "object"
  THEN <<{ToPrefix(h[T].names[K], Prefix) : K \in 1..Len(h[T].names)},
         UNION {FlattenSchema(h, h[T].kids[K], ToPrefix(h[T].names[K], Prefix)) :
                  K \in 1..Len(h[T].names)}>>
  ELSE <<>>

FlattenSchema(h, T, Prefix) ==
  MergeUnion(FlattenTupleSchema(h, UnwrapSchema(h, T), Prefix)
               \o FlattenUnionSchema(h, UnwrapSchema(h, T), Prefix)
               \o FlattenArraySchema(h, UnwrapSchema(h, T), Prefix)
               \o FlattenObjectSchema(h, UnwrapSchema(h, T), Prefix))

(***************************************************************************)
(* The objects a call leaves behind.  A record or value returned to the    *)
(* caller holds references only: every union z.union() created for it is   *)
(* a new object on the heap, distinct from every object that was there.    *)
(***************************************************************************)
Node(kind, names, kids) == [kind |-> kind, names |-> names, kids |-> kids, syn |-> FALSE]

NewUnion(kids) == [kind |-> "union", names |-> <<>>, kids |-> kids, syn |-> TRUE]

RECURSIVE AllocValue(_, _)
RECURSIVE AllocOptions(_, _, _, _)
AllocOptions(h, opts, i, ids) ==
  IF i > Len(opts) THEN [h |-> h, ids |-> ids]
  ELSE LET r == AllocValue(h, opts[i])
       IN  AllocOptions(r.h, opts, i + 1, Append(ids, r.id))

\* z.union replaced by a push onto the options of the union it copies from:
\* a union of the input whose options begin the new list is changed in place
AllocValuePush(h, v) ==
  IF v.id > 0 THEN [h |-> h, id |-> v.id]
  ELSE LET r == AllocOptions(h, v.opts, 1, <<>>)
           copied == {w \in 1..Len(h) :
                        /\ h[w].kind = "union" /\ ~h[w].syn
                        /\ Len(h[w].kids) < Len(r.ids)
                        /\ SubSeq(r.ids, 1, Len(h[w].kids)) = h[w].kids}
       IN  IF copied # {}
           THEN LET w == CHOOSE w \in copied : TRUE
                IN  [h |-> [r.h EXCEPT ![w].kids = r.ids], id |-> w]
           ELSE [h |-> Append(r.h, NewUnion(r.ids)), id |-> Len(r.h) + 1]

AllocValue(h, v) ==
  IF v.id > 0 THEN [h |-> h, id |-> v.id]
  ELSE LET r == AllocOptions(h, v.opts, 1, <<>>)
       IN  [h |-> Append(r.h, NewUnion(r.ids)), id |-> Len(r.h) + 1]

RECURSIVE AllocRecord(_, _, _, _)
AllocRecord(h, m, i, out) ==
  IF i > Len(m) THEN [h |-> h, m |-> out]
  ELSE LET r == AllocValue(h, m[i].v)
       IN  AllocRecord(r.h, m, i + 1, Append(out, [k |-> m[i].k, v |-> Ref(r.id)]))

NSynth(h) == Cardinality({i \in 1..Len(h) : h[i].syn})

(***************************************************************************)
(* The schema graphs given to the calls: what the schema-authoring API     *)
(* (z.string(), z.object(), z.array(), z.tuple(), z.union(), .optional(),  *)
(* .nullable(), .default()) can build.  Objects are created children       *)
(* first, so a node refers to earlier nodes only, and one node may be      *)
(* used at several places.                                                 *)
(***************************************************************************)
SeqsOf(S, lo, hi) == UNION {[1..n -> S] : n \in lo..hi}

RECURSIVE ShapeFrom(_, _, _)
ShapeFrom(acc, names, i) ==
  IF i > Len(names) THEN acc
  ELSE ShapeFrom(Put(acc, names[i], Undefined), names, i + 1)

\* the field names of an object literal, as its shape enumerates them
IsShape(names) == Keys(ShapeFrom(<<>>, names, 1)) = names

KidSet(c) == {c.kids[i] : i \in 1..Len(c.kids)}

\* the objects the schema-authoring API can create next: of a kind in kinds,
\* with up to width fields, items or options, field names from names and
\* children from ids
NodeChoices(names, kinds, width, ids) ==
  {Node(k, <<>>, <<c>>) :
     k \in kinds \cap (WrapperKinds \cup {"array", "readonly", "lazy"}), c \in ids}
    \cup {Node("intersection", <<>>, cs) : cs \in IF "intersection" \in kinds
                                                    THEN [1..2 -> ids] ELSE {}}
    \cup {Node("tuple", <<>>, cs) : cs \in IF "tuple" \in kinds
                                             THEN SeqsOf(ids, 0, width) ELSE {}}
    \cup {Node("union", <<>>, cs) : cs \in IF "union" \in kinds
                                             THEN SeqsOf(ids, 1, width) ELSE {}}
    \cup UNION {{Node("object", ns, cs) : cs \in [1..Len(ns) -> ids]} :
                  ns \in IF "object" \in kinds
                         THEN {s \in SeqsOf(names, 0, width) : IsShape(s)} ELSE {}}

\* the function Object and two leaf schemas, z.string() and z.number()
BaseHeap == <<Node("function", <<>>, <<>>), Node("leaf", <<>>, <<>>), Node("leaf", <<>>, <<>>)>>

Leaves == 2..Len(BaseHeap)

\* One step of building a graph.  A layer names the kinds, the width and the
\* field names of the new object, which of the composite objects created just
\* before it (0: the latest) it must use, and what else its children may be:
\* "all" objects, the "leaves", the leaves and the "first" object built, the
\* last "leaf", or "none".  The two leaves
\* are interchangeable, so the first object built uses the first leaf first.
Layer(names, kinds, width, need, sibs) ==
  [names |-> names, kinds |-> kinds, width |-> width, need |-> need, sibs |-> sibs]

Needed(h, L) == {Len(h) - o : o \in L.need} \ (1..Len(BaseHeap))

Siblings(h, L) ==
  CASE L.sibs = "all" -> 2..Len(h)
    [] L.sibs = "leaves" -> Leaves
    [] L.sibs = "first" -> 2..(Len(BaseHeap) + 1)
    [] L.sibs = "leaf" -> {Len(BaseHeap)}
    [] OTHER -> {}

Grow(G, L) ==
  UNION {{Append(h, c) :
            c \in {x \in NodeChoices(L.names, L.kinds, L.width,
                                     Needed(h, L) \cup Siblings(h, L)) :
                     /\ Needed(h, L) \subseteq KidSet(x)
                     /\ (Len(h) = Len(BaseHeap) /\ x.kids # <<>>) => x.kids[1] = 2}} :
           h \in G}

\* the graphs built by the first n layers
RECURSIVE Built(_, _)
Built(layers, n) ==
  IF n = 0 THEN {BaseHeap} ELSE Grow(Built(layers, n - 1), layers[n])

AllKinds == WrapperKinds \cup {"array", "tuple", "union", "object"}

UnaryKinds == WrapperKinds \cup {"array"}

PlainNames == {<<"a">>, <<"b">>}

\* field names that are the empty string, hold a separator, look like an
\* integer, or are inherited by every plain object
OddNames == {<<>>, <<"a", ".", "b">>, <<"0">>} \cup ProtoKeys

\* every graph of up to two composite objects
General ==
  LET any == Layer(PlainNames, AllKinds, MaxWidth, {0}, "all")
  IN  Built(<<any>>, 0) \cup Built(<<any>>, 1) \cup Built(<<any, any>>, 2)

\* arrays and wrappers nested up to MaxChain deep around a leaf
Chains ==
  LET un == Layer({}, UnaryKinds, 1, {0}, "leaves")
  IN  UNION {Built([i \in 1..n |-> un], n) : n \in 1..MaxChain}

\* a composite object under one or two wrappers, alone or as a child
Wrapped ==
  LET inner == Layer(PlainNames, AllKinds \ WrapperKinds, MaxWidth, {}, "leaves")
      object == Layer(PlainNames, {"object"}, MaxWidth, {}, "leaves")
      wrap == Layer({}, WrapperKinds, 1, {0}, "none")
      parent == Layer(PlainNames, {"object", "array", "tuple"}, MaxWidth, {0}, "leaf")
      only == Layer(PlainNames, {"object", "array", "tuple"}, MaxWidth, {0}, "none")
  IN  Built(<<inner, wrap, wrap>>, 3) \cup Built(<<inner, wrap, parent>>, 3)
        \cup Built(<<object, wrap, wrap, only>>, 4)

\* objects with unusual field names, alone, nested or under a union
Odd ==
  LET names == PlainNames \cup OddNames
      inner == Layer(names, {"object", "optional"}, 1, {}, "leaves")
      outer == Layer(names, {"object", "union", "optional", "array", "tuple"},
                     MaxWidth, {0}, "leaf")
  IN  Built(<<inner>>, 1) \cup Built(<<inner, outer>>, 2)

\* a union of two objects
Pairs ==
  LET branch == Layer(PlainNames \cup {<<"0">>}, {"object"}, MaxWidth, {}, "leaves")
      top == Layer({}, {"union"}, MaxWidth, {0, 1}, "none")
  IN  Built(<<branch, branch, top>>, 3)

Schemas == General \cup Chains \cup Wrapped \cup Odd \cup Pairs

\* unions of two or three objects whose fields are leaves or a union that
\* the caller declared, one of them with an inherited name, and a union
\* nested in a union
Merges ==
  LET value == Layer({}, {"union"}, MaxWidth, {}, "leaves")
      narrow == Layer({<<"a">>}, {"object"}, 1, {}, "first")
      wide == Layer({<<"a">>} \cup ProtoKeys, {"object"}, 1, {}, "first")
      branch == Layer(PlainNames, {"object"}, 1, {}, "first")
      two == Layer({}, {"union"}, 2, {0, 1}, "none")
      three == Layer({}, {"union"}, 3, {0, 1, 2}, "none")
  IN  Built(<<value, branch, branch, two>>, 4)
        \cup Built(<<value, wide, narrow, narrow, three>>, 5)
        \cup Built(<<value, narrow, narrow, two, narrow, two>>, 6)

\* objects, arrays and tuples nested three deep
Nests ==
  LET inner == Layer(PlainNames, {"object", "array", "tuple"}, MaxWidth, {}, "leaves")
      outer == Layer(PlainNames, {"object", "array", "tuple"}, MaxWidth, {0}, "leaf")
      thin == [inner EXCEPT !.width = 1]
      slim == [outer EXCEPT !.width = 1]
  IN  Built(<<thin, outer, slim>>, 3) \cup Built(<<thin, slim, outer>>, 3)

\* a union of an object of up to MaxWidth fields and an object of one field,
\* which share field names
Shares ==
  LET branch == Layer(PlainNames, {"object"}, MaxWidth, {}, "leaves")
      thin == Layer(PlainNames, {"object"}, 1, {}, "leaves")
      top == Layer({}, {"union"}, 2, {0, 1}, "none")
  IN  Built(<<branch, thin, top>>, 3)

\* a schema of a foreign kind, as the root or as a child
Foreign ==
  LET inner == Layer(PlainNames, {"object", "array"}, 1, {}, "leaves")
      alien == Layer({}, ForeignKinds, 2, {0}, "leaf")
      outer == Layer(PlainNames, {"object", "array", "tuple", "union", "optional"},
                     MaxWidth, {0}, "leaf")
  IN  Built(<<inner, alien>>, 2) \cup Built(<<inner, alien, outer>>, 3)

\* An object whose shape has a getter (get child() { return Outer }) can
\* refer to an object created after it, or to itself: the first field of
\* the innermost object is tied to an object above it.
Loops ==
  LET inner == Layer(PlainNames, {"object"}, 1, {}, "leaves")
      outer == Layer(PlainNames, AllKinds, MaxWidth, {0}, "leaf")
      acyclic == {h \in Built(<<inner>>, 1) \cup Built(<<inner, outer>>, 2) :
                    h[Len(BaseHeap) + 1].kids # <<>>}
  IN  UNION {{[h EXCEPT ![Len(BaseHeap) + 1].kids[1] = j] :
                j \in (Len(BaseHeap) + 1)..Len(h)} : h \in acyclic}

\* a union with a branch that is, holds or is held by a schema of a foreign
\* kind, and a union with a branch that lies on a cycle; the other branch
\* is an object
Faulty ==
  LET branch == Layer(PlainNames, {"object"}, 1, {}, "leaves")
      alien == Layer({}, ForeignKinds, 2, {}, "first")
      holder == Layer(PlainNames, {"object", "array", "optional"}, 1, {0}, "none")
      top == Layer({}, {"union"}, 2, {0, 1}, "none")
      far == Layer({}, {"union"}, 2, {0, 2}, "none")
      sound == {h \in Built(<<branch, branch, top>>, 3) :
                  h[Len(BaseHeap) + 2].kids # <<>>}
  IN  Built(<<branch, alien, top>>, 3)
        \cup Built(<<branch, alien, holder, far>>, 4)
        \cup UNION {{[h EXCEPT ![Len(BaseHeap) + 2].kids[1] = j] :
                       j \in (Len(BaseHeap) + 2)..Len(h)} : h \in sound}

(***************************************************************************)
(* The calls.  flat and res record the latest call of flatten and of       *)
(* resolve: its arguments, whether it threw, and what it returned.  The    *)
(* record flatten returned belongs to the caller: flat.held is that        *)
(* object as it is now, and flat.prior is what the object returned by the  *)
(* call before held when the latest call was made; flat.deep is the        *)
(* deepest nesting of flattenSchema calls during the latest call.          *)
(***************************************************************************)
NoFlat == [called |-> FALSE, root |-> 0, err |-> FALSE, error |-> "none", m |-> <<>>,
           base |-> 0, held |-> <<>>, prior |-> <<>>, deep |-> 0]

\* the exception a call ends with: the flattener has no throw statement, so
\* the only one is the engine's RangeError when the call stack is exhausted
ErrorName(r) == IF r.err THEN "RangeError" ELSE "none"

NoRes == [called |-> FALSE, root |-> 0, key |-> <<>>, err |-> FALSE, val |-> Undefined,
          base |-> 0]

\* the schema handed to the calls: the root of the input graph, which is the
\* last object the schema-authoring API created
Root(h) == CHOOSE i \in 1..Len(h) : ~h[i].syn /\ \A j \in (i + 1)..Len(h) : h[j].syn

\* flatten(schema)
Flatten(schema) ==
  /\ NSynth(heap) <= MaxSynth
  /\ LET r == flatten(heap, schema)
         a == AllocRecord(heap, r.m, 1, <<>>)
     IN  /\ heap' = a.h
         /\ flat' = [called |-> TRUE, root |-> schema, err |-> r.err,
                     error |-> ErrorName(r), m |-> a.m, base |-> Len(heap),
                     held |-> a.m, prior |-> flat.held, deep |-> r.deep]
  /\ UNCHANGED res

\* the record without its i-th entry
Without(m, i) == SubSeq(m, 1, i - 1) \o SubSeq(m, i + 1, Len(m))

\* the caller changes the record that flatten returned, once: `delete
\* flat[key]`, or `flat[key] = schema` with a schema of the graph
Mutate ==
  /\ flat.called /\ ~flat.err
  /\ flat.held = flat.m
  /\ \E i \in 1..Len(flat.held) :
       \/ flat' = [flat EXCEPT !.held = Without(flat.held, i)]
       \/ /\ flat.held[i].v # Ref(flat.root)
          /\ flat' = [flat EXCEPT !.held = Put(flat.held, flat.held[i].k, Ref(flat.root))]
  /\ UNCHANGED <<heap, res>>

\* strings resolve is asked for besides the keys of the flattened schema
ProbeKeys == {<<"z">>} \cup ProtoKeys

\* a lookup that returns the first entry whatever the key
IndexFirst(m, key) == IF m = <<>> THEN Undefined ELSE m[1].v

\* flat[key]
Index(m, key) == Get(m, key)

\* resolve(schema, key), with r what its call of flatten returned
ResolveIn(schema, r, key) ==
  /\ NSynth(heap) <= MaxSynth
  /\ LET found == Index(r.m, key)
         a == IF r.err \/ found = Undefined
              THEN [h |-> heap, id |-> 0]
              ELSE AllocValue(heap, found)
     IN  /\ heap' = a.h
         /\ res' = [called |-> TRUE, root |-> schema, key |-> key, err |-> r.err,
                    val |-> Ref(a.id), base |-> Len(heap)]
  /\ UNCHANGED flat

Resolve(schema) ==
  LET r == flatten(heap, schema)
  IN  \E key \in KeySet(r.m) \cup ProbeKeys : ResolveIn(schema, r, key)

Init ==
  /\ heap \in Schemas
  /\ flat = NoFlat
  /\ res = NoRes

Next ==
  \/ Flatten(Root(heap))
  \/ Resolve(Root(heap))

Spec == Init /\ [][Next]_vars

\* the same calls on the other families of schema graphs
InitMerge == heap \in Merges /\ flat = NoFlat /\ res = NoRes

SpecMerge == InitMerge /\ [][Next]_vars

InitNest == heap \in Nests /\ flat = NoFlat /\ res = NoRes

SpecNest == InitNest /\ [][Next]_vars

InitForeign == heap \in Foreign /\ flat = NoFlat /\ res = NoRes

SpecForeign == InitForeign /\ [][Next]_vars

InitLoop == heap \in Loops /\ flat = NoFlat /\ res = NoRes

SpecLoop == InitLoop /\ [][Next]_vars

\* the calls on a union of two objects, with a caller that changes the
\* records it was given
InitCalls == heap \in Shares /\ flat = NoFlat /\ res = NoRes

NextCalls ==
  \/ Flatten(Root(heap))
  \/ Resolve(Root(heap))
  \/ Mutate

SpecCalls == InitCalls /\ [][NextCalls]_vars

InitFaulty == heap \in Faulty /\ flat = NoFlat /\ res = NoRes

SpecFaulty == InitFaulty /\ [][Next]_vars

(***************************************************************************)
(* Vocabulary of the properties.                                           *)
(***************************************************************************)
\* an object created by the union merger during a call
IsSynthetic(id) == heap[id].syn

\* x and y are the same input object, or unions of the merger with pairwise
\* alike options
RECURSIVE Alike(_, _)
Alike(x, y) ==
  IF IsSynthetic(x) \/ IsSynthetic(y)
  THEN /\ IsSynthetic(x) /\ IsSynthetic(y)
       /\ Len(heap[x].kids) = Len(heap[y].kids)
       /\ \A i \in 1..Len(heap[x].kids) : Alike(heap[x].kids[i], heap[y].kids[i])
  ELSE x = y

\* the returned object id is the value v that the flattener computed: the
\* same input object, or a new union with the options of v
RECURSIVE Matches(_, _)
Matches(id, v) ==
  IF v.id > 0 THEN id = v.id
  ELSE /\ id > 0
       /\ IsSynthetic(id)
       /\ Len(heap[id].kids) = Len(v.opts)
       /\ \A i \in 1..Len(v.opts) : Matches(heap[id].kids[i], v.opts[i])

\* the returned record m is the record r that the flattener computed
SameRecord(m, r) ==
  /\ Keys(m) = Keys(r)
  /\ \A i \in 1..Len(r) : Matches(m[i].v.id, r[i].v)

StrictPrefix(p, k) == Len(p) < Len(k) /\ SubSeq(k, 1, Len(p)) = p

\* the node reached by peeling every wrapper
RECURSIVE Peel(_)
Peel(n) == IF heap[n].kind \in WrapperKinds THEN Peel(heap[n].kids[1]) ELSE n

IsComposite(n) == heap[Peel(n)].kind \in {"object", "array", "tuple", "union"}

FlatOk == flat.called /\ ~flat.err

(***************************************************************************)
(* C1.  Round trip: resolve(S, K) returns the identical object as          *)
(* flatten(S)[K], for every key K of flatten(S), synthetic unions          *)
(* included.                                                               *)
(***************************************************************************)
RoundTripCase ==
  /\ FlatOk /\ res.called /\ ~res.err
  /\ flat.root = res.root
  /\ HasOwn(flat.m, res.key)

\* C1 as stated: the very same object, whatever the key
C1_RoundTripIdentical ==
  RoundTripCase => res.val = Own(flat.m, res.key)

\* C1 amended: the very same object when flatten(S)[K] is a node of the
\* input graph; when it is a union built by the merger, resolve returns
\* another union object, with the same options in the same order
C1_RoundTrip ==
  RoundTripCase =>
    LET f == Own(flat.m, res.key).id
        r == res.val.id
    IN  /\ r > 0
        /\ Alike(r, f)
        /\ IF IsSynthetic(f) THEN r # f ELSE r = f

C1_Witness ==
  /\ RoundTripCase
  /\ IsSynthetic(Own(flat.m, res.key).id)
  /\ Len(flat.m) >= 2

(***************************************************************************)
(* C2.  resolve(S, path) fails with a PathNotFound error for every string  *)
(* that is not a key of flatten(S).                                        *)
(***************************************************************************)
C2_PathNotFound ==
  (res.called /\ ~HasOwn(flatten(heap, res.root).m, res.key)) => res.err

(***************************************************************************)
(* C3.  An object root with n declared fields yields exactly n direct      *)
(* entries, one per field name, each mapped to the identical field schema, *)
(* and every other entry is a descendant of a composite field.             *)
(***************************************************************************)
C3_ObjectFields ==
  (FlatOk /\ heap[flat.root].kind = "object") =>
    LET o == heap[flat.root]
        fields == 1..Len(o.kids)
    IN  /\ \A i \in fields :
             /\ HasOwn(flat.m, o.names[i])
             /\ Own(flat.m, o.names[i]) = Ref(o.kids[i])
        /\ \A j \in 1..Len(flat.m) :
             \/ \E i \in fields : flat.m[j].k = o.names[i]
             \/ \E i \in fields : /\ IsComposite(o.kids[i])
                                  /\ StrictPrefix(o.names[i], flat.m[j].k)

(***************************************************************************)
(* C4.  On a union-free tree the keys of flatten(S) are those of the       *)
(* reference rules (field: name under the empty prefix, p.name otherwise;  *)
(* array element: p[]; tuple item i: p[i]), and each key maps to the node  *)
(* at that position.                                                       *)
(***************************************************************************)
RECURSIVE UnionFree(_)
UnionFree(n) ==
  /\ heap[n].kind # "union"
  /\ \A i \in 1..Len(heap[n].kids) : UnionFree(heap[n].kids[i])

\* the path of child i of the composite u reached under prefix p
RefPath(u, p, i) ==
  CASE heap[u].kind = "object" ->
         IF p = <<>> THEN heap[u].names[i] ELSE p \o <<".">> \o heap[u].names[i]
    [] heap[u].kind = "array" -> p \o <<"[", "]">>
    [] heap[u].kind = "tuple" -> p \o <<"[", Digit[i], "]">>

\* the positions below node n under prefix p, as <<path, node>> pairs
RECURSIVE RefEntries(_, _)
RefEntries(n, p) ==
  LET u == Peel(n)
  IN  IF heap[u].kind \notin {"object", "array", "tuple"} THEN {}
      ELSE UNION {{<<RefPath(u, p, i), heap[u].kids[i]>>}
                    \cup RefEntries(heap[u].kids[i], RefPath(u, p, i)) :
                  i \in 1..Len(heap[u].kids)}

C4_PathSyntax ==
  (FlatOk /\ UnionFree(flat.root)) =>
    LET ref == RefEntries(flat.root, <<>>)
    IN  /\ KeySet(flat.m) = {e[1] : e \in ref}
        /\ \A e \in ref : HasOwn(flat.m, e[1]) /\ Own(flat.m, e[1]) = Ref(e[2])

(***************************************************************************)
(* C5.  An array nested d levels deep around an element T yields exactly   *)
(* the keys "[]", "[][]", ... (i pairs of brackets for i = 1..d), the i-th *)
(* mapped to the schema found after descending i array levels.             *)
(***************************************************************************)
\* the schemas found descending the array levels below n: d of them, T last
RECURSIVE Descend(_)
Descend(n) ==
  IF heap[n].kind = "array"
  THEN <<heap[n].kids[1]>> \o Descend(heap[n].kids[1])
  ELSE <<>>

Brackets(i) == [j \in 1..(2 * i) |-> IF j % 2 = 1 THEN "[" ELSE "]"]

\* the root is an array nest around an element that has no children
ArrayNest ==
  /\ FlatOk
  /\ heap[flat.root].kind = "array"
  /\ ~IsComposite(Descend(flat.root)[Len(Descend(flat.root))])

C5_NestedArrays ==
  ArrayNest =>
    LET levels == Descend(flat.root)
    IN  /\ Len(flat.m) = Len(levels)
        /\ \A i \in 1..Len(levels) :
             flat.m[i] = [k |-> Brackets(i), v |-> Ref(levels[i])]

C5_Witness == ArrayNest /\ Len(flat.m) >= 3

(***************************************************************************)
(* C6.  A tuple root with items T0..Tn-1 yields the keys "[0]".."[n-1]",   *)
(* "[i]" mapped to the identical item Ti, plus only descendants of         *)
(* composite items; a tuple with no items yields the empty record.         *)
(***************************************************************************)
ItemKey(i) == <<"[", Digit[i + 1], "]">>

TupleRoot == FlatOk /\ heap[flat.root].kind = "tuple"

C6_TupleItems ==
  TupleRoot =>
    LET items == heap[flat.root].kids
        n == Len(items)
    IN  /\ \A i \in 0..(n - 1) :
             /\ HasOwn(flat.m, ItemKey(i))
             /\ Own(flat.m, ItemKey(i)) = Ref(items[i + 1])
        /\ \A j \in 1..Len(flat.m) :
             \/ \E i \in 0..(n - 1) : flat.m[j].k = ItemKey(i)
             \/ \E i \in 0..(n - 1) : /\ IsComposite(items[i + 1])
                                      /\ StrictPrefix(ItemKey(i), flat.m[j].k)
        /\ (n = 0 => flat.m = <<>>)

C6_Witness ==
  /\ TupleRoot
  /\ Len(heap[flat.root].kids) = 2
  /\ Len(flat.m) > 2

(***************************************************************************)
(* C7.  Wrapper transparency: under any chain of Optional, Nullable and    *)
(* Default wrappers, flatten(W(S)) has the keys of flatten(S), in the same *)
(* order, mapped to the same values.                                       *)
(***************************************************************************)
\* the nodes below n along its chain of wrappers
RECURSIVE Wrappees(_)
Wrappees(n) ==
  IF heap[n].kind \in WrapperKinds
  THEN {heap[n].kids[1]} \cup Wrappees(heap[n].kids[1])
  ELSE {}

WrappedRoot == FlatOk /\ heap[flat.root].kind \in WrapperKinds

C7_WrapperTransparency ==
  WrappedRoot =>
    \A s \in Wrappees(flat.root) : SameRecord(flat.m, flatten(heap, s).m)

C7_Witness ==
  /\ WrappedRoot
  /\ Cardinality(Wrappees(flat.root)) >= 2
  /\ {heap[n].kind : n \in Wrappees(flat.root) \cup {flat.root}} \cap WrapperKinds
       = {"nullable", "default"}
  /\ Len(flat.m) >= 2

(***************************************************************************)
(* C8.  When a child of an object, array or tuple is a wrapper chain       *)
(* around a node, the entry at the child's path stores the wrapper as the  *)
(* parent holds it, and the entries below that path are those of the       *)
(* unwrapped inner node.                                                   *)
(***************************************************************************)
C8_WrappedChild ==
  (FlatOk /\ heap[flat.root].kind \in {"object", "array", "tuple"}) =>
    \A i \in 1..Len(heap[flat.root].kids) :
      LET child == heap[flat.root].kids[i]
          path == RefPath(flat.root, <<>>, i)
          below == flattenSchema(heap, Peel(child), path, 1).m
      IN  heap[child].kind \in WrapperKinds =>
            /\ HasOwn(flat.m, path)
            /\ Own(flat.m, path) = Ref(child)
            /\ \A j \in 1..Len(below) :
                 /\ HasOwn(flat.m, below[j].k)
                 /\ Matches(Own(flat.m, below[j].k).id, below[j].v)

(***************************************************************************)
(* C9.  For a union whose branches flatten to the records M1..Mn, the keys *)
(* of the merged result are the keys of M1..Mn, enumerated in              *)
(* first-occurrence order scanning M1..Mn left to right.                   *)
(***************************************************************************)
UnionRoot == FlatOk /\ heap[flat.root].kind = "union"

\* the record each branch of the root flattens to
BranchRecords ==
  [i \in 1..Len(heap[flat.root].kids) |-> flatten(heap, heap[flat.root].kids[i]).m]

\* ks without the keys that occur in seen
RECURSIVE Fresh(_, _)
Fresh(ks, seen) ==
  IF ks = <<>> THEN <<>>
  ELSE IF ks[1] \in seen THEN Fresh(Tail(ks), seen)
  ELSE <<ks[1]>> \o Fresh(Tail(ks), seen \cup {ks[1]})

RECURSIVE FirstOccurrence(_, _)
FirstOccurrence(ms, seen) ==
  IF ms = <<>> THEN <<>>
  ELSE Fresh(Keys(ms[1]), seen)
         \o FirstOccurrence(Tail(ms), seen \cup KeySet(ms[1]))

C9_KeyOrder ==
  UnionRoot => Keys(flat.m) = FirstOccurrence(BranchRecords, {})

(***************************************************************************)
(* C10.  In a union merge, a key present in exactly one branch record is   *)
(* mapped to that branch's schema itself, not wrapped in any union.        *)
(***************************************************************************)
C10_SingleBranchKey ==
  UnionRoot =>
    \A i \in 1..Len(BranchRecords) : \A j \in 1..Len(BranchRecords[i]) :
      LET key == BranchRecords[i][j].k
      IN  (\A o \in 1..Len(BranchRecords) : o # i => ~HasOwn(BranchRecords[o], key)) =>
            /\ HasOwn(flat.m, key)
            /\ Matches(Own(flat.m, key).id, BranchRecords[i][j].v)

(***************************************************************************)
(* C11.  In a union of n branches, a key present in k >= 2 of the branch   *)
(* records is mapped to a union made by the merger whose options are       *)
(* exactly the k schemas those branches hold for the key, in branch        *)
(* order, with nothing from the branches that lack the key.                *)
(***************************************************************************)
\* the branches of the root whose record has the key, in declaration order
Having(key) ==
  SelectSeq([i \in 1..Len(BranchRecords) |-> i],
            LAMBDA i : HasOwn(BranchRecords[i], key))

SharedKeys ==
  {key \in UNION {KeySet(BranchRecords[i]) : i \in 1..Len(BranchRecords)} :
     Len(Having(key)) >= 2}

C11_SharedKey ==
  UnionRoot =>
    \A key \in SharedKeys :
      /\ HasOwn(flat.m, key)
      /\ LET u == Own(flat.m, key).id
         IN  /\ IsSynthetic(u)
             /\ Len(heap[u].kids) = Len(Having(key))
             /\ \A j \in 1..Len(Having(key)) :
                  Matches(heap[u].kids[j], Own(BranchRecords[Having(key)[j]], key))

(***************************************************************************)
(* C12.  No value of a merge result is a union of unions: no option of a   *)
(* union made by the merger is itself a union, wherever among the          *)
(* branches the union-valued entries stand.                                *)
(***************************************************************************)
C12_NoUnionOfUnions ==
  \A u \in 1..Len(heap) :
    IsSynthetic(u) =>
      \A j \in 1..Len(heap[u].kids) : heap[heap[u].kids[j]].kind # "union"

(***************************************************************************)
(* C13.  The merger is left-associative: merge([A, B, C]) equals           *)
(* merge([merge([A, B]), C]), in key order and in the options of every     *)
(* union, for the records A, B, C of three branches.                       *)
(***************************************************************************)
ThreeBranches == UnionRoot /\ Len(heap[flat.root].kids) = 3

C13_LeftAssociative ==
  ThreeBranches =>
    LET A == BranchRecords[1]
        B == BranchRecords[2]
        C == BranchRecords[3]
    IN  mergeSchemas(heap, <<A, B, C>>)
          = mergeSchemas(heap, <<mergeSchemas(heap, <<A, B>>), C>>)

(***************************************************************************)
(* C14.  Permuting the branches of a union never changes the set of keys   *)
(* of flatten(Union(branches)), and changes nothing else than the order in *)
(* which the keys are enumerated and the order of the options inside the   *)
(* union values: every key keeps its value up to the order of options.     *)
(***************************************************************************)
Orders(n) == {p \in [1..n -> 1..n] : \A i, j \in 1..n : p[i] = p[j] => i = j}

\* what flatten returns for the root union with its options in the order p
FlattenPermuted(p) ==
  LET options == heap[flat.root].kids
      h == [heap EXCEPT ![flat.root].kids = [i \in 1..Len(options) |-> options[p[i]]]]
  IN  flatten(h, flat.root)

\* the returned object id is the value v up to the order of options: the
\* same input object, or a union of the merger with the options of v in
\* some order
RECURSIVE Reordered(_, _)
Reordered(id, v) ==
  IF v.id > 0 THEN id = v.id
  ELSE /\ id > 0
       /\ IsSynthetic(id)
       /\ Len(heap[id].kids) = Len(v.opts)
       /\ \E p \in Orders(Len(v.opts)) :
            \A i \in 1..Len(v.opts) : Reordered(heap[id].kids[i], v.opts[p[i]])

C14_PermutedBranches ==
  UnionRoot =>
    \A p \in Orders(Len(heap[flat.root].kids)) :
      LET r == FlattenPermuted(p)
      IN  /\ ~r.err
          /\ KeySet(r.m) = KeySet(flat.m)
          /\ \A i \in 1..Len(r.m) :
               HasOwn(flat.m, r.m[i].k) =>
                 Reordered(Own(flat.m, r.m[i].k).id, r.m[i].v)

(***************************************************************************)
(* C15.  flatten never creates an entry for the root itself (the empty     *)
(* prefix is no key of the root), and a union adds no entry of its own:    *)
(* the entries below a union are those of its branches, so a union whose   *)
(* branches are all leaves flattens to the empty record.                   *)
(***************************************************************************)
\* some object of the graph declares a field with the empty name
EmptyNameDeclared ==
  \E n \in 1..Len(heap) : \E i \in 1..Len(heap[n].names) : heap[n].names[i] = <<>>

\* every option of the union u is a leaf, possibly wrapped
LeafUnion(u) ==
  /\ heap[u].kind = "union"
  /\ \A i \in 1..Len(heap[u].kids) : heap[Peel(heap[u].kids[i])].kind = "leaf"

C15_NoOwnEntry ==
  FlatOk =>
    LET u == Peel(flat.root)
    IN  /\ \A j \in 1..Len(flat.m) : flat.m[j].v # Ref(flat.root)
        /\ (~EmptyNameDeclared => ~HasOwn(flat.m, <<>>))
        /\ (heap[u].kind = "union" =>
              /\ \A j \in 1..Len(flat.m) : flat.m[j].v # Ref(u)
              /\ KeySet(flat.m)
                   = UNION {KeySet(flatten(heap, heap[u].kids[i]).m) :
                              i \in 1..Len(heap[u].kids)})
        /\ (LeafUnion(u) => flat.m = <<>>)
        /\ \A i \in 1..Len(heap[u].kids) :
             (heap[u].kind \in {"object", "array", "tuple"}
                /\ LeafUnion(Peel(heap[u].kids[i]))) =>
               flattenSchema(heap, heap[u].kids[i], RefPath(u, <<>>, i), 1).m = <<>>

C15_Witness ==
  /\ FlatOk
  /\ LeafUnion(flat.root)
  /\ Len(heap[flat.root].kids) = 2
  /\ flat.m = <<>>

(***************************************************************************)
(* C16.  When the schema graph contains a cycle, flatten fails with a      *)
(* CyclicSchema error found from the node identities on the traversal      *)
(* path, instead of recursing without bound.                               *)
(***************************************************************************)
Kids(n) == {heap[n].kids[i] : i \in 1..Len(heap[n].kids)}

\* the nodes reachable from the nodes of S, those included
RECURSIVE ReachFrom(_)
ReachFrom(S) ==
  LET T == S \cup UNION {Kids(n) : n \in S}
  IN  IF T = S THEN S ELSE ReachFrom(T)

\* a node reachable from n is reachable from itself
Cyclic(n) == \E c \in ReachFrom({n}) : c \in ReachFrom(Kids(c))

C16_CyclicSchema ==
  (flat.called /\ Cyclic(flat.root)) => flat.error = "CyclicSchema"

(***************************************************************************)
(* C17.  flatten and resolve leave the schema graph unchanged: after every *)
(* call each object has the kind and the children it had before, the       *)
(* unions whose options were copied into a union of the merger included.   *)
(***************************************************************************)
C17_GraphUnchanged ==
  [][/\ Len(heap') >= Len(heap)
     /\ \A n \in 1..Len(heap) : heap'[n] = heap[n]]_vars

\* a union of the input whose options the merger copied, followed by more
Copied(w) ==
  /\ heap[w].kind = "union" /\ ~IsSynthetic(w)
  /\ \E u \in 1..Len(heap) :
       /\ IsSynthetic(u)
       /\ Len(heap[u].kids) > Len(heap[w].kids)
       /\ SubSeq(heap[u].kids, 1, Len(heap[w].kids)) = heap[w].kids

C17_Witness ==
  /\ FlatOk /\ res.called /\ ~res.err
  /\ \E w \in 1..Len(heap) :
       /\ Copied(w)
       /\ Len(heap[w].kids) = 2
       /\ \E b \in Kids(flat.root) : w \in Kids(b)

(***************************************************************************)
(* C18.  The keys of the type FlattenSchema<S> are the keys of the record  *)
(* that flatten(S) returns, for every nesting of objects, arrays, tuples,  *)
(* unions and wrappers, tuples directly inside arrays included.            *)
(***************************************************************************)
C18_TypeKeys ==
  FlatOk => FlattenSchema(heap, flat.root, <<>>) = KeySet(flat.m)

(***************************************************************************)
(* C19.  A leaf, an empty object and an empty tuple contribute no entries  *)
(* below their position, yet as a child of an object, array or tuple such  *)
(* a node has its one entry at its own path; flatten(Object({})) is the    *)
(* empty record.                                                           *)
(***************************************************************************)
\* a leaf, or an object or tuple without children, possibly wrapped
Barren(n) ==
  \/ heap[Peel(n)].kind = "leaf"
  \/ heap[Peel(n)].kind \in {"object", "tuple"} /\ heap[Peel(n)].kids = <<>>

C19_EmptyNodes ==
  FlatOk =>
    LET u == Peel(flat.root)
    IN  /\ (Barren(flat.root) => flat.m = <<>>)
        /\ heap[u].kind \in {"object", "array", "tuple"} =>
             \A i \in 1..Len(heap[u].kids) :
               LET path == RefPath(u, <<>>, i)
               IN  Barren(heap[u].kids[i]) =>
                     /\ Cardinality({j \in 1..Len(flat.m) : flat.m[j].k = path}) = 1
                     /\ flattenSchema(heap, heap[u].kids[i], path, 1).m = <<>>

C19_Witness ==
  /\ FlatOk
  /\ heap[flat.root].kind = "object"
  /\ Len(flat.m) = 2
  /\ \E i, j \in 1..Len(heap[flat.root].kids) :
       /\ heap[heap[flat.root].kids[i]].kind = "object"
       /\ heap[heap[flat.root].kids[i]].kids = <<>>
       /\ heap[heap[flat.root].kids[j]].kind = "leaf"

(***************************************************************************)
(* C20.  A node of a kind other than object, array, tuple, union, wrapper  *)
(* and leaf is treated as a leaf wherever it occurs: flatten raises no     *)
(* error, the node contributes no entries below its position, and the      *)
(* entry its parent assigns to it is present.                              *)
(***************************************************************************)
IsForeign(n) == heap[Peel(n)].kind \in ForeignKinds

C20_ForeignAsLeaf ==
  (flat.called /\ \E n \in ReachFrom({flat.root}) : IsForeign(n)) =>
    LET u == Peel(flat.root)
    IN  /\ ~flat.err
        /\ (IsForeign(u) => flat.m = <<>>)
        /\ \A i \in 1..Len(heap[u].kids) :
             IsForeign(heap[u].kids[i]) =>
               IF heap[u].kind = "union"
               THEN flatten(heap, heap[u].kids[i]).m = <<>>
               ELSE heap[u].kind \in {"object", "array", "tuple"} =>
                      /\ HasOwn(flat.m, RefPath(u, <<>>, i))
                      /\ flattenSchema(heap, heap[u].kids[i], RefPath(u, <<>>, i), 1).m
                           = <<>>

C20_Witness ==
  /\ FlatOk
  /\ heap[flat.root].kind = "object"
  /\ Len(flat.m) = 2
  /\ \E i \in 1..Len(heap[flat.root].kids) :
       LET c == heap[flat.root].kids[i]
       IN  /\ heap[c].kind = "readonly"
           /\ heap[heap[c].kids[1]].kind = "object"
           /\ heap[heap[c].kids[1]].kids # <<>>

(***************************************************************************)
(* C21.  When a branch of a union holds a node of a foreign kind or a node *)
(* on a cycle, flatten of the union ends with an error and returns no      *)
(* record, not even the entries of the other branches.                     *)
(***************************************************************************)
\* the branch b of a union holds a foreign node or a node on a cycle
FaultyBranch(b) ==
  \/ \E n \in ReachFrom({b}) : heap[n].kind \in ForeignKinds
  \/ Cyclic(b)

C21_FailFast ==
  (/\ flat.called
   /\ heap[flat.root].kind = "union"
   /\ \E b \in Kids(flat.root) : FaultyBranch(b)) =>
    /\ flat.err
    /\ flat.m = <<>>

(***************************************************************************)
(* C22.  On a schema without unions, distinct child positions (object      *)
(* field, array element, tuple item) have distinct paths: the record has   *)
(* as many entries as there are child positions and every value is a node  *)
(* of the input graph, never a union made by the merger, whatever the      *)
(* field names (empty, or holding ".", "[" or "]").                        *)
(***************************************************************************)
\* the number of child positions below node n
RECURSIVE Positions(_)
RECURSIVE PositionsFrom(_, _)
PositionsFrom(kids, i) ==
  IF i > Len(kids) THEN 0
  ELSE 1 + Positions(kids[i]) + PositionsFrom(kids, i + 1)

Positions(n) ==
  IF heap[Peel(n)].kind \in {"object", "array", "tuple"}
  THEN PositionsFrom(heap[Peel(n)].kids, 1)
  ELSE 0

C22_UniquePaths ==
  (FlatOk /\ UnionFree(flat.root)) =>
    /\ Len(flat.m) = Positions(flat.root)
    /\ \A j \in 1..Len(flat.m) : ~IsSynthetic(flat.m[j].v.id)

(***************************************************************************)
(* C23.  The keys of flatten(S) are enumerated in depth-first pre-order:   *)
(* for an object each field's own entry comes first, followed at once by   *)
(* the entries of that field's descendants, before the entry of the next   *)
(* declared field; the items of a tuple follow index order likewise.       *)
(***************************************************************************)
\* the paths below node n of a union-free schema, in depth-first pre-order
RECURSIVE PreOrder(_, _)
RECURSIVE PreOrderFrom(_, _, _)
PreOrderFrom(u, p, i) ==
  IF i > Len(heap[u].kids) THEN <<>>
  ELSE <<RefPath(u, p, i)>> \o PreOrder(heap[u].kids[i], RefPath(u, p, i))
         \o PreOrderFrom(u, p, i + 1)

PreOrder(n, p) ==
  IF heap[Peel(n)].kind \in {"object", "array", "tuple"}
  THEN PreOrderFrom(Peel(n), p, 1)
  ELSE <<>>

\* child i of the root u: its own key, then the keys of its descendants
RECURSIVE ChildrenInOrder(_, _)
ChildrenInOrder(u, i) ==
  IF i > Len(heap[u].kids) THEN <<>>
  ELSE <<RefPath(u, <<>>, i)>>
         \o Keys(flattenSchema(heap, heap[u].kids[i], RefPath(u, <<>>, i), 1).m)
         \o ChildrenInOrder(u, i + 1)

C23_PreOrder ==
  FlatOk =>
    /\ UnionFree(flat.root) => Keys(flat.m) = PreOrder(flat.root, <<>>)
    /\ heap[Peel(flat.root)].kind \in {"object", "array", "tuple"} =>
         Keys(flat.m) = ChildrenInOrder(Peel(flat.root), 1)

(***************************************************************************)
(* C24.  flatten and resolve keep no state between calls: however the      *)
(* calls are interleaved, and even when the caller has changed a record    *)
(* that an earlier call returned, each call returns what a first call on   *)
(* the schema graph alone returns: the same keys in the same order, with   *)
(* structurally equal values.                                              *)
(***************************************************************************)
\* the schema graph as the caller built it, without the unions that earlier
\* calls created
Input == SubSeq(heap, 1, Root(heap))

\* what a first call of flatten on the graph alone computes
Isolated(schema) == flattenSchema(Input, schema, <<>>, 1)

C24_NoState ==
  /\ flat.called =>
       /\ flat.err = Isolated(flat.root).err
       /\ SameRecord(flat.m, Isolated(flat.root).m)
  /\ res.called =>
       LET found == Index(Isolated(res.root).m, res.key)
       IN  /\ res.err = Isolated(res.root).err
           /\ ~res.err =>
                IF found = Undefined THEN res.val = Undefined
                ELSE Matches(res.val.id, found)

\* a call that followed a call whose record the caller had changed
C24_Witness ==
  /\ FlatOk /\ res.called
  /\ flat.prior # <<>>
  /\ Keys(flat.prior) # Keys(flat.m)
  /\ \E j \in 1..Len(flat.m) : IsSynthetic(flat.m[j].v.id)
  /\ res.val.id > 0 /\ IsSynthetic(res.val.id)
  /\ res.base > flat.base

(***************************************************************************)
(* C25.  On an acyclic schema graph, one in which a node is used at        *)
(* several positions included, flatten ends without error, the record has  *)
(* an entry for every position, those below every occurrence of a shared   *)
(* node included, and the recursion is never deeper than the graph is      *)
(* nested.                                                                 *)
(***************************************************************************)
\* the nesting depth of the graph below n: the nodes on its longest path
RECURSIVE Height(_)
Height(n) ==
  IF heap[n].kids = <<>> THEN 1
  ELSE 1 + (CHOOSE x \in {Height(c) : c \in Kids(n)} :
              \A c \in Kids(n) : x >= Height(c))

\* the positions below node n under prefix p, as <<path, node>> pairs, a
\* union passing its prefix on to its branches
RECURSIVE Places(_, _)
Places(n, p) ==
  LET u == Peel(n)
  IN  IF heap[u].kind = "union" THEN UNION {Places(c, p) : c \in Kids(u)}
      ELSE IF heap[u].kind \notin {"object", "array", "tuple"} THEN {}
      ELSE UNION {{<<RefPath(u, p, i), heap[u].kids[i]>>}
                    \cup Places(heap[u].kids[i], RefPath(u, p, i)) :
                  i \in 1..Len(heap[u].kids)}

C25_AcyclicTerminates ==
  (flat.called /\ ~Cyclic(flat.root)) =>
    /\ ~flat.err
    /\ flat.deep >= 1
    /\ flat.deep <= Height(flat.root)
    /\ \A e \in Places(flat.root, <<>>) : HasOwn(flat.m, e[1])

\* a composite node used at two positions of the root
C25_Witness ==
  /\ FlatOk
  /\ heap[flat.root].kind \in {"object", "tuple"}
  /\ Len(heap[flat.root].kids) = 2
  /\ heap[flat.root].kids[1] = heap[flat.root].kids[2]
  /\ Places(heap[flat.root].kids[1], <<>>) # {}
  /\ Len(flat.m) = 4
  /\ flat.deep = Height(flat.root)

(***************************************************************************)
(* C26.  The merger stores the first occurrence of a key unchanged and     *)
(* builds a union only for a key that an earlier record of the same merge  *)
(* contributed: a key that one position alone contributes is mapped to the *)
(* schema at that position, whatever the key, names of built-in object     *)
(* properties such as "constructor" included.                              *)
(***************************************************************************)
\* the number of positions below node n under prefix p whose path is key
RECURSIVE Occurrences(_, _, _)
RECURSIVE OccurrencesFrom(_, _, _, _)
OccurrencesFrom(u, p, key, i) ==
  IF i > Len(heap[u].kids) THEN 0
  ELSE (IF heap[u].kind = "union"
        THEN Occurrences(heap[u].kids[i], p, key)
        ELSE (IF RefPath(u, p, i) = key THEN 1 ELSE 0)
               + Occurrences(heap[u].kids[i], RefPath(u, p, i), key))
         + OccurrencesFrom(u, p, key, i + 1)

Occurrences(n, p, key) ==
  IF heap[Peel(n)].kind \in {"object", "array", "tuple", "union"}
  THEN OccurrencesFrom(Peel(n), p, key, 1)
  ELSE 0

C26_FirstOccurrence ==
  FlatOk =>
    \A j \in 1..Len(flat.m) :
      Occurrences(flat.root, <<>>, flat.m[j].k) = 1 =>
        /\ ~IsSynthetic(flat.m[j].v.id)
        /\ <<flat.m[j].k, flat.m[j].v.id>> \in Places(flat.root, <<>>)

(***************************************************************************)
(* C27.  The key set of flatten(S) is prefix-closed: whenever a key is a   *)
(* non-empty path P followed by one segment (".name", "[]" or "[N]"), P    *)
(* is a key as well, entries that come from union merging and from         *)
(* unwrapping included.                                                    *)
(***************************************************************************)
Separators == {".", "[", "]"}

\* s is one segment of the path syntax
IsSegment(s) ==
  \/ s = <<"[", "]">>
  \/ /\ Len(s) >= 3
     /\ s[1] = "[" /\ s[Len(s)] = "]"
     /\ \A i \in 2..(Len(s) - 1) : s[i] \in DigitChars
  \/ /\ Len(s) >= 1
     /\ s[1] = "."
     /\ \A i \in 2..Len(s) : s[i] \notin Separators

C27_PrefixClosed ==
  FlatOk =>
    \A j \in 1..Len(flat.m) :
      LET key == flat.m[j].k
      IN  \A i \in 1..(Len(key) - 1) :
            IsSegment(SubSeq(key, i + 1, Len(key))) =>
              HasOwn(flat.m, SubSeq(key, 1, i))

(***************************************************************************)
(* C28.  Resolution composes: for every key K of flatten(S) and every key  *)
(* J of flatten(flatten(S)[K]), the path K joined with J (with "." in      *)
(* between exactly when J begins with a field name) is a key of flatten(S) *)
(* whose value is structurally equal to flatten(flatten(S)[K])[J], and     *)
(* every key of flatten(S) that extends K is such a join; K may be mapped  *)
(* to a union made by the merger.                                          *)
(***************************************************************************)
Join(K, J) ==
  IF J # <<>> /\ J[1] = "[" THEN K \o J ELSE K \o <<".">> \o J

\* the path key goes on from the path K
Extends(key, K) ==
  /\ StrictPrefix(K, key)
  /\ key[Len(K) + 1] \in {".", "["}

C28_Composes ==
  FlatOk =>
    \A j \in 1..Len(flat.m) :
      LET K == flat.m[j].k
          sub == flatten(heap, flat.m[j].v.id).m
      IN  /\ \A i \in 1..Len(sub) :
               /\ HasOwn(flat.m, Join(K, sub[i].k))
               /\ Matches(Own(flat.m, Join(K, sub[i].k)).id, sub[i].v)
          /\ \A l \in 1..Len(flat.m) :
               Extends(flat.m[l].k, K) =>
                 \E i \in 1..Len(sub) : Join(K, sub[i].k) = flat.m[l].k

(***************************************************************************)
(* C29.  The merge treats a union-valued entry alike in either branch      *)
(* position: when the two branches of a union both define a key, one with  *)
(* a value that is itself a union and the other with a value that is not,  *)
(* the merged value has the same number of options, and the same nesting,  *)
(* whichever of the two branches is declared first.                        *)
(***************************************************************************)
TwoBranches == UnionRoot /\ Len(heap[flat.root].kids) = 2

\* the number of options of the union v, and whether one of them is a union
Shape(h, v) ==
  [options |-> Len(Options(h, v)),
   nested |-> \E i \in 1..Len(Options(h, v)) : IsUnion(h, Options(h, v)[i])]

C29_PositionIndependent ==
  TwoBranches =>
    \A key \in SharedKeys :
      (IsUnion(heap, Own(BranchRecords[1], key))
         # IsUnion(heap, Own(BranchRecords[2], key))) =>
        Shape(heap, Own(flat.m, key))
          = Shape(heap, Own(FlattenPermuted(<<2, 1>>).m, key))

====
